---------------------------- MODULE Spec2Model ----------------------------
(***************************************************************************)
(* A model of the remittance reconciliation program:                       *)
(*   - src/src/dataProcessor.js   (identifyColumns, createRemittanceMapping,*)
(*                                 findMatchingRecords, processMatchedData) *)
(*   - src/src/headerDetection.js (evaluateConsistencyOfFollowingRows,      *)
(*                                 findHeaderRow, readExcelFile)            *)
(*   - src/unnamed/part_000       (ExcelMatcher.processFiles)               *)
(*                                                                         *)
(* Representation of JavaScript values.                                    *)
(*   string   [t |-> "string", s |-> <<"A","m","t">>]  a sequence of chars *)
(*   number   [t |-> "number", n |-> 60750]   the number times 1000        *)
(*            (exact decimal arithmetic with three decimals stands for the *)
(*            IEEE doubles of the program)                                 *)
(*   boolean  [t |-> "boolean", b |-> TRUE]                                *)
(*   undefined, null                                                       *)
(* An object is the sequence of its own properties [k, v] in the order     *)
(* Object.keys lists them; a Set is the sequence of its distinct members   *)
(* in insertion order.                                                     *)
(***************************************************************************)
EXTENDS Integers, Sequences, FiniteSets

VARIABLES
    \* ---- the reconciliation run (processFiles, part_000:47-107)
    pc,                    \* position of the run inside processFiles
    remittanceData,        \* records read from the remittance (source) file
    submissionData,        \* records read from the submission (target) file
    amtFieldName,          \* identifyColumns(remittanceHeaders,'remittance')
    remittanceIdField,
    submissionIdField,     \* identifyColumns(submissionHeaders,'submission')
    remittanceAmtSumByID,  \* createRemittanceMapping(...).remittanceAmtSumByID
    remittanceIds,         \* new Set(remittanceData.map(row => row[idField]))
    matchedRows,           \* findMatchingRecords(...).matchedRows
    unmatchedRows,         \* findMatchingRecords(...).unmatchedRows
    enhancedMatchedRows,   \* processMatchedData(...)
    \* ---- the header locator (findHeaderRow)
    hpc,                   \* "ready" before the call, "done" after it
    jsonData,              \* the grid handed to findHeaderRow
    headerRowIndex,        \* the value findHeaderRow returned
    \* ---- the reading of the two files (readExcelFile, part_000:49-53)
    remittanceSheet,       \* first worksheet of the remittance file
    submissionSheet,       \* first worksheet of the submission file
    remittanceHeaderRow,   \* findHeaderRow(rawData) of the remittance file
    submissionHeaderRow,   \* findHeaderRow(rawData) of the submission file
    readDone,              \* the files whose readExcelFile promise resolved
    rowScores,             \* the rowScores array of the latest findHeaderRow call
    \* ---- the state of the ExcelMatcher component (part_000:11-18)
    remittanceFile,        \* useState(null): the remittance file chosen
    submissionFile,        \* useState(null): the submission file chosen
    matchedData,           \* useState(null): the matched records displayed
    unmatchedData,         \* useState(null): the unmatched records displayed
    loading,               \* useState(false)
    error,                 \* useState(''): the error message displayed
    running                \* processFiles calls past line 42, not yet through finally

vars == <<pc, remittanceData, submissionData, amtFieldName, remittanceIdField,
          submissionIdField, remittanceAmtSumByID, remittanceIds, matchedRows,
          unmatchedRows, enhancedMatchedRows, hpc, jsonData, headerRowIndex,
          remittanceSheet, submissionSheet, remittanceHeaderRow,
          submissionHeaderRow, readDone, rowScores, remittanceFile,
          submissionFile, matchedData, unmatchedData, loading, error, running>>

reconVars == <<pc, remittanceData, submissionData, amtFieldName,
               remittanceIdField, submissionIdField, remittanceAmtSumByID,
               remittanceIds, matchedRows, unmatchedRows, enhancedMatchedRows>>

headerVars == <<hpc, jsonData, headerRowIndex>>

fileVars == <<remittanceSheet, submissionSheet, remittanceHeaderRow,
              submissionHeaderRow, readDone, rowScores>>

uiVars == <<remittanceFile, submissionFile, matchedData, unmatchedData,
            loading, error, running>>

---------------------------------------------------------------------------
(* Bounds of the model.                                                    *)

\* longest source record list drawn by the reconciliation specification
MaxSource == 3
\* longest target record list drawn by the reconciliation specification
MaxTarget == 2
\* most rows of a grid drawn by the header locator specification
MaxGridRows == 3
\* most data rows of a worksheet drawn by the file reading specification
MaxSheetRows == 2

---------------------------------------------------------------------------
(* JavaScript values.                                                      *)

Undefined == [t |-> "undefined"]
Null == [t |-> "null"]
Num(n) == [t |-> "number", n |-> n]
Str(s) == [t |-> "string", s |-> s]
Bool(b) == [t |-> "boolean", b |-> b]
NaN == [t |-> "number", nan |-> TRUE]

IsNum(x) == x.t = "number"
IsStr(x) == x.t = "string"
IsNaN(x) == x.t = "number" /\ "nan" \in DOMAIN x

\* Set.prototype.has / add compare with SameValueZero: same type, same value
SameValueZero(x, y) == x = y

UpperChars == <<"A","B","C","D","E","F","G","H","I","J","K","L","M",
                "N","O","P","Q","R","S","T","U","V","W","X","Y","Z">>
LowerChars == <<"a","b","c","d","e","f","g","h","i","j","k","l","m",
                "n","o","p","q","r","s","t","u","v","w","x","y","z">>
DigitChars == <<"0","1","2","3","4","5","6","7","8","9">>

UpperSet == {UpperChars[i] : i \in 1..26}
LowerTable ==
    [c \in UpperSet |-> LowerChars[CHOOSE i \in 1..26 : UpperChars[i] = c]]

LowerChar(c) == IF c \in UpperSet THEN LowerTable[c] ELSE c

\* String.prototype.toLowerCase
toLowerCase(s) == [i \in 1..Len(s) |-> LowerChar(s[i])]

DigitSet == {DigitChars[i] : i \in 1..10}
DigitTable ==
    [c \in DigitSet |-> (CHOOSE i \in 1..10 : DigitChars[i] = c) - 1]

IsDigit(c) == c \in DigitSet
DigitVal(c) == DigitTable[c]

\* String.prototype.includes
includes(s, sub) ==
    \E i \in 0..(Len(s) - Len(sub)) :
        \A j \in 1..Len(sub) : s[i + j] = sub[j]

\* the number of leading digits of s from position i on
RECURSIVE CountDigits(_, _)
CountDigits(s, i) ==
    IF i <= Len(s) /\ IsDigit(s[i]) THEN 1 + CountDigits(s, i + 1) ELSE 0

\* the value of the n digits of s that start at position i
RECURSIVE DigitsValue(_, _, _)
DigitsValue(s, i, n) ==
    IF n = 0 THEN 0
    ELSE 10 * DigitsValue(s, i, n - 1) + DigitVal(s[i + n - 1])

RECURSIVE SkipSpaces(_, _)
SkipSpaces(s, i) ==
    IF i <= Len(s) /\ s[i] = " " THEN SkipSpaces(s, i + 1) ELSE i

Pow10(k) == IF k = 0 THEN 1 ELSE IF k = 1 THEN 10 ELSE IF k = 2 THEN 100 ELSE 1000

\* parseFloat on a string: leading white space, an optional sign, the longest
\* prefix  digits [. digits]  (decimals beyond the third are dropped; exponent
\* forms and "Infinity" are outside the strings the model draws).
\* NaN when no digit is found.
parseFloatString(s) ==
    LET i0 == SkipSpaces(s, 1)
        signed == i0 <= Len(s) /\ s[i0] \in {"+", "-"}
        neg == signed /\ s[i0] = "-"
        i1 == IF signed THEN i0 + 1 ELSE i0
        ni == CountDigits(s, i1)
        i2 == i1 + ni
        dot == i2 <= Len(s) /\ s[i2] = "."
        nf == IF dot THEN CountDigits(s, i2 + 1) ELSE 0
        kf == IF nf > 3 THEN 3 ELSE nf
        mag == 1000 * DigitsValue(s, i1, ni)
               + Pow10(3 - kf) * DigitsValue(s, i2 + 1, kf)
    IN  IF ni = 0 /\ nf = 0 THEN NaN
        ELSE Num(IF neg THEN 0 - mag ELSE mag)

\* the decimal digits of a natural number
RECURSIVE NatToString(_)
NatToString(n) ==
    IF n < 10 THEN <<DigitChars[n + 1]>>
    ELSE NatToString(n \div 10) \o <<DigitChars[(n % 10) + 1]>>

\* Number::toString of n/1000: sign, integer part, fraction without its
\* trailing zeros
NumberToString(n) ==
    LET a == IF n < 0 THEN 0 - n ELSE n
        f == a % 1000
        frac == IF f = 0 THEN <<>>
                ELSE IF f % 100 = 0 THEN <<".", DigitChars[(f \div 100) + 1]>>
                ELSE IF f % 10 = 0
                     THEN <<".", DigitChars[(f \div 100) + 1],
                            DigitChars[((f \div 10) % 10) + 1]>>
                ELSE <<".", DigitChars[(f \div 100) + 1],
                       DigitChars[((f \div 10) % 10) + 1],
                       DigitChars[(f % 10) + 1]>>
    IN  (IF n < 0 THEN <<"-">> ELSE <<>>) \o NatToString(a \div 1000) \o frac

\* JSToString(value), as applied to a property key and by parseFloat
JSToString(x) ==
    CASE x.t = "string" -> x.s
      [] x.t = "number" ->
            IF IsNaN(x) THEN <<"N","a","N">> ELSE NumberToString(x.n)
      [] x.t = "boolean" ->
            IF x.b THEN <<"t","r","u","e">> ELSE <<"f","a","l","s","e">>
      [] x.t = "null" -> <<"n","u","l","l">>
      [] OTHER -> <<"u","n","d","e","f","i","n","e","d">>

\* parseFloat(value): the argument is converted to a string first
parseFloat(x) == parseFloatString(JSToString(x))

\* ToBoolean(value)
Truthy(x) ==
    CASE x.t = "string" -> Len(x.s) > 0
      [] x.t = "number" -> ~IsNaN(x) /\ x.n # 0
      [] x.t = "boolean" -> x.b
      [] OTHER -> FALSE

\* value || 0
OrZero(x) == IF Truthy(x) THEN x ELSE Num(0)

---------------------------------------------------------------------------
(* Objects: own properties in Object.keys order.                           *)

\* an array index key: "0", or digits without a leading zero
IsIndexKey(k) ==
    /\ Len(k) > 0
    /\ \A i \in 1..Len(k) : IsDigit(k[i])
    /\ (Len(k) > 1 => k[1] # "0")

IndexValue(k) == DigitsValue(k, 1, Len(k))

HasKey(obj, k) == \E i \in 1..Len(obj) : obj[i].k = k

\* obj[k], undefined when obj has no own property k
Get(obj, k) ==
    IF HasKey(obj, k)
    THEN obj[CHOOSE i \in 1..Len(obj) : obj[i].k = k].v
    ELSE Undefined

\* obj[key] with a key that is any value: the key is converted to a string
GetV(obj, key) == Get(obj, JSToString(key))

\* where a new property k is created: index keys stay in ascending numeric
\* order ahead of the string keys, a string key goes last
NewKeyPosition(obj, k) ==
    IF IsIndexKey(k)
    THEN 1 + Cardinality({i \in 1..Len(obj) :
                IsIndexKey(obj[i].k) /\ IndexValue(obj[i].k) < IndexValue(k)})
    ELSE Len(obj) + 1

\* obj[k] = v: an existing property keeps its position and takes the value
Set(obj, k, v) ==
    IF HasKey(obj, k)
    THEN [i \in 1..Len(obj) |-> IF obj[i].k = k THEN [k |-> k, v |-> v] ELSE obj[i]]
    ELSE LET p == NewKeyPosition(obj, k)
         IN  SubSeq(obj, 1, p - 1) \o <<[k |-> k, v |-> v]>> \o SubSeq(obj, p, Len(obj))

\* Object.keys(obj)
Keys(obj) == [i \in 1..Len(obj) |-> obj[i].k]

---------------------------------------------------------------------------
(* String constants of the program.                                        *)

s_amt == <<"a","m","t">>
s_Amt == <<"A","m","t">>
s_amount == <<"a","m","o","u","n","t">>
s_id == <<"i","d">>
s_billno == <<"b","i","l","l","n","o">>
s_claim == <<"c","l","a","i","m">>
s_ClaimID == <<"C","l","a","i","m"," ","I","D">>
s_RemitAmt == <<"R","e","m","i","t"," ","A","m","t">>
s_RejectedAmount == <<"R","e","j","e","c","t","e","d"," ","A","m","o","u","n","t">>

---------------------------------------------------------------------------
(* src/src/dataProcessor.js                                                *)

\* variant: the label has to be 'amt' or 'amount' exactly
IsAmountHeader_exact(h) ==
    \/ toLowerCase(h) = s_amt
    \/ toLowerCase(h) = s_amount

\* Array.prototype.find with the predicate of the 'remittance' amount field
IsAmountHeader(h) ==
    \/ toLowerCase(h) = s_amt
    \/ toLowerCase(h) = s_amount
    \/ includes(toLowerCase(h), s_amount)

IsRemittanceIdHeader(h) ==
    \/ toLowerCase(h) = s_id
    \/ toLowerCase(h) = s_billno

IsSubmissionIdHeader(h) ==
    \/ includes(toLowerCase(h), s_claim)
    \/ toLowerCase(h) = s_id

\* variant: the last element satisfying P
Find_last(headers, sat) ==
    IF sat # {}
    THEN Str(headers[CHOOSE i \in sat : \A j \in sat : i >= j])
    ELSE Undefined

\* headers.find(P): the first element satisfying P as a string value, or
\* undefined; sat is the set of the positions whose element satisfies P
Find(headers, sat) ==
    IF sat # {}
    THEN Str(headers[CHOOSE i \in sat : \A j \in sat : i <= j])
    ELSE Undefined

AmountHeaders(headers) == {i \in 1..Len(headers) : IsAmountHeader(headers[i])}
RemittanceIdHeaders(headers) ==
    {i \in 1..Len(headers) : IsRemittanceIdHeader(headers[i])}
SubmissionIdHeaders(headers) ==
    {i \in 1..Len(headers) : IsSubmissionIdHeader(headers[i])}

\* a || b
Or(a, b) == IF Truthy(a) THEN a ELSE b

\* headers[0]
First(headers) == IF Len(headers) > 0 THEN Str(headers[1]) ELSE Undefined

identifyColumns(headers, fileType) ==
    IF fileType = "remittance"
    THEN [amtFieldName |-> Find(headers, AmountHeaders(headers)),
          idField |-> Or(Find(headers, RemittanceIdHeaders(headers)), First(headers))]
    ELSE [amtFieldName |-> Undefined,
          idField |-> Or(Find(headers, SubmissionIdHeaders(headers)), Str(s_ClaimID))]

\* rawAmt.replace(/[^\d.-]/g, ''): only digits, '.' and '-' are kept
RECURSIVE CleanAmt(_)
CleanAmt(s) ==
    IF Len(s) = 0 THEN <<>>
    ELSE (IF IsDigit(s[1]) \/ s[1] \in {".", "-"} THEN <<s[1]>> ELSE <<>>)
         \o CleanAmt(Tail(s))

\* the amount createRemittanceMapping derives from one row (lines 50-62)
RowAmount(row, amtField) ==
    IF Truthy(amtField)
    THEN LET rawAmt == GetV(row, amtField)
         IN  IF IsNum(rawAmt) THEN rawAmt
             ELSE IF IsStr(rawAmt) THEN OrZero(parseFloatString(CleanAmt(rawAmt.s)))
             ELSE Num(0)
    ELSE Num(0)

\* remittanceAmountsByID after the first n rows (lines 46-68): an object from
\* the identifier, converted to a property key, to the list of its amounts
RECURSIVE AmountsByID(_, _, _, _)
AmountsByID(data, idField, amtField, n) ==
    IF n = 0 THEN <<>>
    ELSE LET prev == AmountsByID(data, idField, amtField, n - 1)
             row == data[n]
             id == JSToString(GetV(row, idField))
             amount == RowAmount(row, amtField)
             old == IF HasKey(prev, id) THEN Get(prev, id) ELSE <<>>
         IN  Set(prev, id, Append(old, amount))

\* amounts.reduce((total, amt) => total + amt, 0)
RECURSIVE SumAmounts(_)
SumAmounts(amounts) ==
    IF Len(amounts) = 0 THEN 0
    ELSE SumAmounts(SubSeq(amounts, 1, Len(amounts) - 1))
         + amounts[Len(amounts)].n

\* remittanceAmtSumByID (lines 70-76): one sum per key, in Object.keys order
RECURSIVE SumByID(_, _)
SumByID(amountsByID, n) ==
    IF n = 0 THEN <<>>
    ELSE Set(SumByID(amountsByID, n - 1),
             amountsByID[n].k, Num(SumAmounts(amountsByID[n].v)))

createRemittanceMapping(data, idField, amtField) ==
    LET amountsByID == AmountsByID(data, idField, amtField, Len(data))
    IN  [remittanceAmountsByID |-> amountsByID,
         remittanceAmtSumByID |-> SumByID(amountsByID, Len(amountsByID))]

\* Set.prototype.has
SetHas(set, x) == \E i \in 1..Len(set) : SameValueZero(set[i], x)

\* new Set(iterable): distinct members in insertion order
RECURSIVE NewSet(_)
NewSet(values) ==
    IF Len(values) = 0 THEN <<>>
    ELSE LET prev == NewSet(SubSeq(values, 1, Len(values) - 1))
             x == values[Len(values)]
         IN  IF SetHas(prev, x) THEN prev ELSE Append(prev, x)

\* variant: membership by loose comparison of the identifiers' texts
IsMatch_loose(row, ids, idField) ==
    \E i \in 1..Len(ids) : JSToString(ids[i]) = JSToString(GetV(row, idField))
\* variant: a row without identifier is never matched
IsMatch_definedOnly(row, ids, idField) ==
    GetV(row, idField) # Undefined /\ SetHas(ids, GetV(row, idField))
\* whether findMatchingRecords pushes the row to matchedRows (line 90)
IsMatch(row, ids, idField) == SetHas(ids, GetV(row, idField))

\* findMatchingRecords after the first n rows (lines 85-98)
RECURSIVE MatchingRecords(_, _, _, _)
\* variant: the else of line 92 is lost, a matched row is pushed to both lists
MatchingRecords_noElse(data, ids, idField, n) ==
    IF n = 0 THEN [matchedRows |-> <<>>, unmatchedRows |-> <<>>]
    ELSE LET prev == MatchingRecords(data, ids, idField, n - 1)
         IN  [matchedRows |->
                 IF SetHas(ids, GetV(data[n], idField))
                 THEN Append(prev.matchedRows, data[n]) ELSE prev.matchedRows,
              unmatchedRows |-> Append(prev.unmatchedRows, data[n])]
MatchingRecords(data, ids, idField, n) ==
    IF n = 0 THEN [matchedRows |-> <<>>, unmatchedRows |-> <<>>]
    ELSE LET prev == MatchingRecords(data, ids, idField, n - 1)
         IN  IF IsMatch(data[n], ids, idField)
             THEN [prev EXCEPT !.matchedRows = Append(@, data[n])]
             ELSE [prev EXCEPT !.unmatchedRows = Append(@, data[n])]

findMatchingRecords(data, ids, idField) ==
    MatchingRecords(data, ids, idField, Len(data))

\* Math.round(x * 100) / 100 for x = d/1000: the nearest hundredth, a half
\* rounded towards +Infinity
Round2(d) == ((d + 5) \div 10) * 10

\* variant: the first header when no header is 'amt'
AmtIndex_firstByDefault(headers) ==
    IF \E i \in 1..Len(headers) : toLowerCase(headers[i]) = s_amt
    THEN (CHOOSE i \in 1..Len(headers) :
            /\ toLowerCase(headers[i]) = s_amt
            /\ \A j \in 1..(i - 1) : toLowerCase(headers[j]) # s_amt) - 1
    ELSE 0

\* headers.findIndex(header => header.toLowerCase() === 'amt'), 0-based
AmtIndex(headers) ==
    IF \E i \in 1..Len(headers) : toLowerCase(headers[i]) = s_amt
    THEN (CHOOSE i \in 1..Len(headers) :
            /\ toLowerCase(headers[i]) = s_amt
            /\ \A j \in 1..(i - 1) : toLowerCase(headers[j]) # s_amt) - 1
    ELSE 0 - 1

\* remittanceAmtSumByID[rowID] || 0 (line 18)
RemitAmtSum(row, idField, sums) == OrZero(GetV(sums, GetV(row, idField)))

\* parseFloat(row['Amt']) || 0 (line 21)
OriginalAmt(row) == OrZero(parseFloat(Get(row, s_Amt)))

\* the headers.forEach of lines 28-36 after the first n headers
RECURSIVE BuildResult(_, _, _, _, _)
BuildResult(newRow, amtIndex, remitAmtSum, rejectedAmount, n) ==
    IF n = 0 THEN <<>>
    ELSE LET prev == BuildResult(newRow, amtIndex, remitAmtSum, rejectedAmount, n - 1)
             copied == Set(prev, newRow[n].k, newRow[n].v)
         IN  IF n - 1 = amtIndex
             THEN Set(Set(copied, s_RemitAmt, remitAmtSum),
                      s_RejectedAmount, rejectedAmount)
             ELSE copied

\* the body of the matchedRows.map callback (lines 6-39)
EnhanceRow(row, idField, sums) ==
    LET newRow == row
        amtIndex == AmtIndex(Keys(newRow))
        remitAmtSum == RemitAmtSum(row, idField, sums)
        originalAmt == OriginalAmt(row)
        rejectedAmount == Num(Round2(originalAmt.n - remitAmtSum.n))
    IN  BuildResult(newRow, amtIndex, remitAmtSum, rejectedAmount, Len(newRow))

\* variant: the enhanced rows come out in reverse order
processMatchedData_reversed(rows, idField, sums) ==
    [i \in 1..Len(rows) |-> EnhanceRow(rows[Len(rows) + 1 - i], idField, sums)]

processMatchedData(rows, idField, sums) ==
    [i \in 1..Len(rows) |-> EnhanceRow(rows[i], idField, sums)]

---------------------------------------------------------------------------
(* The reconciliation run: processFiles from the point both files are read  *)
(* (part_000:56) to the point the results are stored (part_000:107).       *)

\* a record with the given labels and values, built as readExcelFile builds
\* it (row[header] = value, column by column)
RECURSIVE MakeRecord(_, _)
MakeRecord(labels, values) ==
    IF Len(labels) = 0 THEN <<>>
    ELSE Set(MakeRecord(SubSeq(labels, 1, Len(labels) - 1),
                        SubSeq(values, 1, Len(values) - 1)),
             labels[Len(labels)], values[Len(values)])

\* all lists of 1..n elements of S
SeqsUpTo(S, n) == UNION {[1..k -> S] : k \in 1..n}

id_A == Str(<<"A">>)
id_B == Str(<<"B">>)
id_7 == Str(<<"7">>)
num_7 == Num(7000)
txt_x == Str(<<"x">>)
amt_30_25_USD == Str(<<"3","0",".","2","5"," ","U","S","D">>)
amt_1_000 == Str(<<"1",",","0","0","0">>)
amt_dollar_100 == Str(<<"$","1","0","0">>)

\* the source files drawn: one header, rows repeating identifiers
SourceLabels == <<<<"I","D">>, s_Amt>>
SourceRows ==
    { MakeRecord(SourceLabels, v) :
        v \in { <<id_A, Num(10000)>>, <<id_A, Num(20500)>>,
                <<id_A, amt_30_25_USD>>, <<num_7, Num(10000)>>,
                <<id_7, Num(20500)>> } }
\* two amount-like labels, the identifier label is not the first label
SourceLabels2 == <<<<"T","o","t","a","l"," ","A","m","o","u","n","t">>,
                   <<"B","i","l","l","N","o">>, <<"I","D">>, s_Amt>>
SourceRows2 ==
    { MakeRecord(SourceLabels2, <<Num(10000), id_A, id_B, Num(5000)>>) }
\* no amount-like label and no identifier label
SourceLabels3 == <<<<"R","e","f">>, <<"P","a","i","d">>>>
SourceRows3 == { MakeRecord(SourceLabels3, <<id_A, Num(10000)>>) }
\* the first label is amount-like and there is no identifier label
SourceLabels4 == <<<<"A","m","o","u","n","t">>, <<"N","a","m","e">>>>
SourceRows4 == { MakeRecord(SourceLabels4, <<Num(10000), id_A>>) }
SourceFiles ==
    {<<>>} \cup SeqsUpTo(SourceRows, MaxSource) \cup SeqsUpTo(SourceRows2, MaxSource)
           \cup SeqsUpTo(SourceRows3, MaxSource) \cup {<<r>> : r \in SourceRows4}

\* the target files drawn: each file has one header
TargetLabels1 == <<s_ClaimID, s_Amt, <<"N","a","m","e">>>>
TargetRows1 ==
    { MakeRecord(TargetLabels1, v) :
        v \in { <<id_A, Num(100000), txt_x>>, <<id_7, Num(80000), txt_x>>,
                <<num_7, amt_1_000, txt_x>>, <<id_B, amt_dollar_100, txt_x>> } }
\* no amt-named field
TargetLabels2 == <<s_ClaimID, <<"N","a","m","e">>>>
TargetRows2 ==
    { MakeRecord(TargetLabels2, v) : v \in { <<id_A, txt_x>>, <<id_B, txt_x>> } }
\* a file that already carries the two enrichment fields
TargetLabels3 == <<s_RemitAmt, s_ClaimID, s_Amt, s_RejectedAmount>>
TargetRows3 ==
    { MakeRecord(TargetLabels3, v) :
        v \in { <<Num(5000), id_A, Num(100000), Num(1000)>>,
                <<Num(5000), id_B, Num(100000), Num(1000)>> } }
\* the amt-named field is not spelled "Amt"
TargetLabels4 == <<<<"I","d">>, <<"A","M","T">>>>
TargetRows4 == { MakeRecord(TargetLabels4, <<id_A, Num(100000)>>) }
TargetLabels5 == <<<<"I","d">>, s_Amt>>
TargetRows5 == { MakeRecord(TargetLabels5, <<id_A, Num(100000)>>) }
\* two identifier labels
TargetLabels6 == <<<<"C","l","a","i","m"," ","N","o">>, <<"I","d">>>>
TargetRows6 == { MakeRecord(TargetLabels6, <<id_A, id_B>>) }
\* no identifier label
TargetLabels7 == <<<<"N","a","m","e">>, s_Amt>>
TargetRows7 ==
    { MakeRecord(TargetLabels7, v) :
        v \in { <<id_A, Num(100000)>>, <<id_B, Num(80000)>> } }
TargetFiles ==
    {<<>>} \cup SeqsUpTo(TargetRows1, MaxTarget) \cup SeqsUpTo(TargetRows2, MaxTarget)
           \cup SeqsUpTo(TargetRows3, MaxTarget) \cup SeqsUpTo(TargetRows4, MaxTarget)
           \cup SeqsUpTo(TargetRows5, MaxTarget) \cup SeqsUpTo(TargetRows6, MaxTarget)
           \cup SeqsUpTo(TargetRows7, MaxTarget)

HeaderIdle == hpc = "idle" /\ jsonData = <<>> /\ headerRowIndex = 0

\* no file is being read
FilesIdle ==
    /\ remittanceSheet = <<>>
    /\ submissionSheet = <<>>
    /\ remittanceHeaderRow = 0 - 1
    /\ submissionHeaderRow = 0 - 1
    /\ readDone = {}
    /\ rowScores = <<>>

\* the component as mounted: no file chosen, nothing displayed, no run
UIIdle ==
    /\ remittanceFile = Null
    /\ submissionFile = Null
    /\ matchedData = Null
    /\ unmatchedData = Null
    /\ loading = FALSE
    /\ error = ""
    /\ running = 0

InitRecon ==
    /\ pc = "read"
    /\ remittanceData \in SourceFiles
    /\ submissionData \in TargetFiles
    /\ amtFieldName = Undefined
    /\ remittanceIdField = Undefined
    /\ submissionIdField = Undefined
    /\ remittanceAmtSumByID = <<>>
    /\ remittanceIds = <<>>
    /\ matchedRows = <<>>
    /\ unmatchedRows = <<>>
    /\ enhancedMatchedRows = <<>>
    /\ HeaderIdle
    /\ FilesIdle
    /\ UIIdle

\* part_000:61-69. Object.keys(data[0]) throws a TypeError when a file has no
\* record; the catch of line 108 ends the run in the error outcome.
IdentifyColumns ==
    /\ pc = "read"
    /\ IF Len(remittanceData) = 0 \/ Len(submissionData) = 0
       THEN /\ pc' = "error"
            /\ UNCHANGED <<amtFieldName, remittanceIdField, submissionIdField>>
       ELSE LET r == identifyColumns(Keys(remittanceData[1]), "remittance")
                s == identifyColumns(Keys(submissionData[1]), "submission")
            IN  /\ pc' = "identified"
                /\ amtFieldName' = r.amtFieldName
                /\ remittanceIdField' = r.idField
                /\ submissionIdField' = s.idField
    /\ UNCHANGED uiVars
    /\ UNCHANGED <<remittanceData, submissionData, remittanceAmtSumByID,
                   remittanceIds, matchedRows, unmatchedRows,
                   enhancedMatchedRows, headerVars, fileVars>>

\* part_000:78-82
CreateRemittanceMapping ==
    /\ pc = "identified"
    /\ pc' = "mapped"
    /\ remittanceAmtSumByID' =
         createRemittanceMapping(remittanceData, remittanceIdField,
                                 amtFieldName).remittanceAmtSumByID
    /\ UNCHANGED uiVars
    /\ UNCHANGED <<remittanceData, submissionData, amtFieldName,
                   remittanceIdField, submissionIdField, remittanceIds,
                   matchedRows, unmatchedRows, enhancedMatchedRows, headerVars, fileVars>>

\* part_000:85
ExtractIds ==
    /\ pc = "mapped"
    /\ pc' = "ids"
    /\ remittanceIds' =
         NewSet([i \in 1..Len(remittanceData) |->
                    GetV(remittanceData[i], remittanceIdField)])
    /\ UNCHANGED uiVars
    /\ UNCHANGED <<remittanceData, submissionData, amtFieldName,
                   remittanceIdField, submissionIdField, remittanceAmtSumByID,
                   matchedRows, unmatchedRows, enhancedMatchedRows, headerVars, fileVars>>

\* part_000:89-93
FindMatchingRecords ==
    /\ pc = "ids"
    /\ pc' = "matched"
    /\ LET r == findMatchingRecords(submissionData, remittanceIds, submissionIdField)
       IN  /\ matchedRows' = r.matchedRows
           /\ unmatchedRows' = r.unmatchedRows
    /\ UNCHANGED uiVars
    /\ UNCHANGED <<remittanceData, submissionData, amtFieldName,
                   remittanceIdField, submissionIdField, remittanceAmtSumByID,
                   remittanceIds, enhancedMatchedRows, headerVars, fileVars>>

\* variant: the map callback writes the enrichment into the row it is given, so
\* the matched rows and the target records they are change with it
ProcessMatchedData_inPlace ==
    /\ pc = "matched"
    /\ pc' = "done"
    /\ enhancedMatchedRows' =
         processMatchedData(matchedRows, submissionIdField, remittanceAmtSumByID)
    /\ matchedRows' = enhancedMatchedRows'
    /\ submissionData' =
         [i \in 1..Len(submissionData) |->
            IF IsMatch(submissionData[i], remittanceIds, submissionIdField)
            THEN EnhanceRow(submissionData[i], submissionIdField, remittanceAmtSumByID)
            ELSE submissionData[i]]
    /\ UNCHANGED uiVars
    /\ UNCHANGED <<remittanceData, amtFieldName,
                   remittanceIdField, submissionIdField, remittanceAmtSumByID,
                   remittanceIds, unmatchedRows, headerVars, fileVars>>

\* part_000:99-103
ProcessMatchedData ==
    /\ pc = "matched"
    /\ pc' = "done"
    /\ enhancedMatchedRows' =
         processMatchedData(matchedRows, submissionIdField, remittanceAmtSumByID)
    /\ UNCHANGED uiVars
    /\ UNCHANGED <<remittanceData, submissionData, amtFieldName,
                   remittanceIdField, submissionIdField, remittanceAmtSumByID,
                   remittanceIds, matchedRows, unmatchedRows, headerVars, fileVars>>

NextRecon ==
    \/ IdentifyColumns
    \/ CreateRemittanceMapping
    \/ ExtractIds
    \/ FindMatchingRecords
    \/ ProcessMatchedData

SpecRecon == InitRecon /\ [][NextRecon]_vars

---------------------------------------------------------------------------
(* findMatchingRecords as a function of its arguments: the target records, *)
(* any Set of identifiers, and the identifier field identifyColumns gives  *)
(* for the target headers.                                                 *)

IdValues == {Undefined, id_A, id_B, num_7}
IdSets == {<<>>} \cup {NewSet(ids) : ids \in SeqsUpTo(IdValues, MaxSource)}

InitMatch ==
    /\ pc = "ids"
    /\ remittanceData = <<>>
    /\ submissionData \in TargetFiles \ {<<>>}
    /\ amtFieldName = Undefined
    /\ remittanceIdField = Undefined
    /\ submissionIdField =
         identifyColumns(Keys(submissionData[1]), "submission").idField
    /\ remittanceAmtSumByID = <<>>
    /\ remittanceIds \in IdSets
    /\ matchedRows = <<>>
    /\ unmatchedRows = <<>>
    /\ enhancedMatchedRows = <<>>
    /\ HeaderIdle
    /\ FilesIdle
    /\ UIIdle

NextMatch == FindMatchingRecords

SpecMatch == InitMatch /\ [][NextMatch]_vars

---------------------------------------------------------------------------
(* Properties of the reconciliation run.                                   *)

\* the elements of seq at the positions of I, in order
RECURSIVE Restrict(_, _, _)
Restrict(seq, I, n) ==
    IF n = 0 THEN <<>>
    ELSE IF n \in I THEN Append(Restrict(seq, I, n - 1), seq[n])
    ELSE Restrict(seq, I, n - 1)

Partitioned == pc \in {"matched", "done"}

\* C1: findMatchingRecords splits the target records: the two lists together
\* are as long as the target list, and the target positions split into two
\* disjoint sets, one listed by matchedRows and the other by unmatchedRows.
C1_PartitionTotals ==
    Partitioned =>
        /\ Len(matchedRows) + Len(unmatchedRows) = Len(submissionData)
        /\ \E I \in SUBSET (1..Len(submissionData)) :
              /\ matchedRows = Restrict(submissionData, I, Len(submissionData))
              /\ unmatchedRows =
                   Restrict(submissionData, (1..Len(submissionData)) \ I,
                            Len(submissionData))

C1_Witness ==
    /\ pc = "matched"
    /\ Len(matchedRows) = 1
    /\ Len(unmatchedRows) = 1

\* x === y
StrictEquals(x, y) ==
    /\ x.t = y.t
    /\ CASE x.t = "string" -> x.s = y.s
         [] x.t = "number" -> ~IsNaN(x) /\ ~IsNaN(y) /\ x.n = y.n
         [] x.t = "boolean" -> x.b = y.b
         [] OTHER -> TRUE

TargetId(row) == GetV(row, submissionIdField)
SourceId(row) == GetV(row, remittanceIdField)

\* the target positions whose identifier strictly equals the identifier of
\* some source record
StrictlyMatched ==
    {i \in 1..Len(submissionData) :
        \E j \in 1..Len(remittanceData) :
            StrictEquals(TargetId(submissionData[i]), SourceId(remittanceData[j]))}

\* C2: a target record is in matchedRows if and only if its identifier is
\* strictly equal (type included) to the identifier of some source record;
\* all other target records are in unmatchedRows.
C2_ExactTypeSensitiveMatch ==
    Partitioned =>
        /\ matchedRows =
             Restrict(submissionData, StrictlyMatched, Len(submissionData))
        /\ unmatchedRows =
             Restrict(submissionData,
                      (1..Len(submissionData)) \ StrictlyMatched,
                      Len(submissionData))

\* the only source identifier is the number 7 and a target with the text "7"
\* is unmatched
C2_Witness ==
    /\ pc = "matched"
    /\ remittanceIds = <<num_7>>
    /\ \E i \in 1..Len(unmatchedRows) : TargetId(unmatchedRows[i]) = id_7

\* the sum of the amounts of the source records whose identifier strictly
\* equals x
RECURSIVE StrictSum(_, _)
StrictSum(x, n) ==
    IF n = 0 THEN 0
    ELSE StrictSum(x, n - 1)
         + (IF StrictEquals(SourceId(remittanceData[n]), x)
            THEN RowAmount(remittanceData[n], amtFieldName).n ELSE 0)

\* C3: the aggregate looked up for a matched target record (its Remit Amt) is
\* the sum of the amounts of exactly the source records whose identifier
\* equals the target's identifier type-sensitively: the number 7 and the text
\* "7" are aggregated apart.
C3_AggregateKeyedWithoutCoercion ==
    pc = "done" =>
        \A i \in 1..Len(matchedRows) :
            RemitAmtSum(matchedRows[i], submissionIdField, remittanceAmtSumByID).n
              = StrictSum(TargetId(matchedRows[i]), Len(remittanceData))

\* C4: for every identifier occurring in the source records the aggregate
\* table holds the sum of the amounts of every source record carrying that
\* identifier.
C4_AggregateIsSumPerIdentifier ==
    pc \in {"mapped", "ids", "matched", "done"} =>
        \A j \in 1..Len(remittanceData) :
            LET id == SourceId(remittanceData[j])
            IN  /\ HasKey(remittanceAmtSumByID, JSToString(id))
                /\ GetV(remittanceAmtSumByID, id).n
                     = StrictSum(id, Len(remittanceData))

\* C5: the amount parser gives the same amount at its two call sites: the
\* originalAmt processMatchedData derives from a record's "Amt" value equals
\* the amount createRemittanceMapping derives from that same value.
C5_SameParserAtBothCallSites ==
    pc = "done" =>
        \A i \in 1..Len(matchedRows) :
            HasKey(matchedRows[i], s_Amt) =>
                OriginalAmt(matchedRows[i]) = RowAmount(matchedRows[i], Str(s_Amt))

HasAmtField(row) == AmtIndex(Keys(row)) >= 0

\* C6: an enriched record with an amt-named field carries "Remit Amt" = the
\* aggregate of its identifier (0 if absent) and "Rejected Amount" =
\* round((originalAmt - remitAmt) * 100) / 100.
C6_EnrichmentValues ==
    pc = "done" =>
        \A i \in 1..Len(matchedRows) :
            HasAmtField(matchedRows[i]) =>
                LET remit == OrZero(GetV(remittanceAmtSumByID, TargetId(matchedRows[i])))
                    orig == OrZero(parseFloat(Get(matchedRows[i], s_Amt)))
                IN  /\ Get(enhancedMatchedRows[i], s_RemitAmt) = remit
                    /\ Get(enhancedMatchedRows[i], s_RejectedAmount)
                         = Num(Round2(orig.n - remit.n))

\* C7: in an enriched record with an amt-named field, "Remit Amt" and then
\* "Rejected Amount" come immediately after the first amt-named field, and
\* the original fields keep their relative order.
C7_EnrichmentPosition ==
    pc = "done" =>
        \A i \in 1..Len(matchedRows) :
            HasAmtField(matchedRows[i]) =>
                LET orig == Keys(matchedRows[i])
                    out == Keys(enhancedMatchedRows[i])
                    p == AmtIndex(orig) + 1
                IN  /\ Len(out) >= p + 2
                    /\ out[p] = orig[p]
                    /\ out[p + 1] = s_RemitAmt
                    /\ out[p + 2] = s_RejectedAmount
                    /\ \E I \in SUBSET (1..Len(out)) :
                          Restrict(out, I, Len(out)) = orig

---------------------------------------------------------------------------
(* src/src/headerDetection.js                                              *)

\* the default of the parameter maxRowsToCheck
MaxRowsToCheck == 10
\* the slice of evaluateConsistencyOfFollowingRows ends at
\* headerRowIndex + min(Lookahead, length - headerRowIndex - 1)
Lookahead == 5
\* the weights of the five features, in hundredths
WeightFill == 20
WeightText == 25
WeightTerms == 10
WeightUnique == 15
WeightConsistency == 30
\* the penalty factors, in tenths
ForbiddenFactor == 3
OneValueFactor == 2
\* the score under which the first row is returned, in hundredths
LowScore == 20

commonHeaderTerms == <<
    <<"i","d">>,
    <<"n","a","m","e">>,
    <<"d","a","t","e">>,
    <<"n","u","m","b","e","r">>,
    <<"c","o","d","e">>,
    <<"d","e","s","c","r","i","p","t","i","o","n">>,
    <<"a","m","o","u","n","t">>,
    <<"q","u","a","n","t","i","t","y">>,
    <<"p","r","i","c","e">>,
    <<"t","o","t","a","l">>,
    <<"a","d","d","r","e","s","s">>,
    <<"p","h","o","n","e">>,
    <<"e","m","a","i","l">>,
    <<"s","t","a","t","u","s">>,
    <<"m","o","b","i","l","e">>,
    <<"p","a","t","i","e","n","t">>,
    <<"d","o","c","t","o","r">>,
    <<"b","i","l","l">>,
    <<"i","n","s">>,
    <<"f","i","l","e">>,
    <<"c","a","r","d">>,
    <<"p","a","y","e","r">>,
    <<"c","l","a","i","m">>,
    <<"s","e","n","d","e","r">>,
    <<"s","e","r","v","i","c","e">>,
    <<"n","e","t">>,
    <<"c","l","i","n","i","c","i","a","n">>,
    <<"d","e","n","i","a","l">>,
    <<"s","u","b","m","i","s","s","i","o","n">>,
    <<"r","e","m","i","t","t","a","n","c","e">>,
    <<"b","i","l","l","n","o">>,
    <<"f","i","l","e","n","o">>,
    <<"q","t","y">>,
    <<"a","m","t">> >>

forbiddenWords == <<
    <<"g","a","r","b","a","g","e">>,
    <<"p","a","g","e">>,
    <<"r","e","p","o","r","t">>,
    <<"g","e","n","e","r","a","t","e","d">>,
    <<"t","o","t","a","l">>,
    <<"s","u","m","m","a","r","y">> >>

Min(a, b) == IF a < b THEN a ELSE b

\* cell !== null && cell !== undefined && cell !== ''
NonEmpty(cell) ==
    ~(cell.t = "null" \/ cell.t = "undefined" \/ (cell.t = "string" /\ cell.s = <<>>))

\* row.filter(nonempty).length
NonEmptyCount(row) == Cardinality({i \in 1..Len(row) : NonEmpty(row[i])})

\* String.prototype.trim (the white space of the model is the blank)
RECURSIVE TrimEnd(_)
TrimEnd(s) ==
    IF Len(s) > 0 /\ s[Len(s)] = " " THEN TrimEnd(SubSeq(s, 1, Len(s) - 1)) ELSE s
trim(s) == LET i == SkipSpaces(s, 1) IN TrimEnd(SubSeq(s, i, Len(s)))

\* isNaN(string): Number(string) is NaN. The trimmed string converts to a
\* number when it is empty or a decimal literal  [+-] digits [. [digits]]  or
\* [+-] . digits  (exponent, hexadecimal and "Infinity" forms are outside the
\* strings the model draws).
StringIsNaN(s) ==
    LET u == trim(s)
        i1 == IF Len(u) > 0 /\ u[1] \in {"+", "-"} THEN 2 ELSE 1
        ni == CountDigits(u, i1)
        i2 == i1 + ni
        dot == i2 <= Len(u) /\ u[i2] = "."
        nf == IF dot THEN CountDigits(u, i2 + 1) ELSE 0
        stop == IF dot THEN i2 + 1 + nf ELSE i2
    IN  ~(\/ Len(u) = 0
          \/ (ni + nf > 0 /\ stop = Len(u) + 1))

\* typeof cell === 'string' && isNaN(cell.toString().trim())
IsTextCell(cell) == IsStr(cell) /\ StringIsNaN(trim(cell.s))

\* the terms of commonHeaderTerms the cell contains (lines 90-95)
TermMatches(cell) ==
    IF IsStr(cell)
    THEN LET cellText == toLowerCase(cell.s)
         IN  Cardinality({k \in 1..Len(commonHeaderTerms) :
                            includes(cellText, commonHeaderTerms[k])})
    ELSE 0

\* headerTermMatches of the row (lines 88-96)
RECURSIVE HeaderTermMatches(_)
HeaderTermMatches(row) ==
    IF Len(row) = 0 THEN 0
    ELSE TermMatches(row[1]) + HeaderTermMatches(Tail(row))

\* hasForbiddenWords (lines 100-106)
HasForbiddenWords(row) ==
    \E i \in 1..Len(row) :
        /\ IsStr(row[i])
        /\ \E k \in 1..Len(forbiddenWords) :
              includes(toLowerCase(row[i].s), forbiddenWords[k])

\* hasOnlyOneValue (lines 109-111)
HasOnlyOneValue(row) == NonEmptyCount(row) = 1

\* cell?.toString()?.toLowerCase()
UniqueKey(cell) ==
    IF cell.t \in {"null", "undefined"} THEN Undefined
    ELSE Str(toLowerCase(JSToString(cell)))

\* uniqueValues.size (line 114)
UniqueValues(row) == Cardinality({UniqueKey(row[i]) : i \in 1..Len(row)})

\* /^\d{1,2}[\/\-\.]\d{1,2}[\/\-\.]\d{2,4}$/
MatchesDate(s) ==
    LET n1 == CountDigits(s, 1)
        p1 == 1 + n1
        n2 == CountDigits(s, p1 + 1)
        p2 == p1 + 1 + n2
        n3 == CountDigits(s, p2 + 1)
    IN  /\ n1 \in 1..2
        /\ p1 <= Len(s) /\ s[p1] \in {"/", "-", "."}
        /\ n2 \in 1..2
        /\ p2 <= Len(s) /\ s[p2] \in {"/", "-", "."}
        /\ n3 \in 2..4
        /\ p2 + n3 = Len(s)

\* the type categories a cell adds to the Set types (lines 30-45)
CellTypes(cell) ==
    IF IsNum(cell) THEN {"number"}
    ELSE IF IsStr(cell)
         THEN IF MatchesDate(cell.s) THEN {"date"}
              ELSE IF ~StringIsNaN(cell.s) THEN {"numericString"}
              ELSE {"string"}
    ELSE IF cell.t = "boolean" THEN {"boolean"}
    ELSE {}

\* variant: the slice takes one more row
DataRowIndices_longer(data, headerIdx) ==
    {i \in 0..(Len(data) - 1) :
        /\ i >= headerIdx + 1
        /\ i < headerIdx + Min(Lookahead + 1, Len(data) - headerIdx - 1)}

\* the 0-based indices of jsonData.slice(headerRowIndex + 1,
\*     headerRowIndex + Math.min(5, jsonData.length - headerRowIndex - 1))
DataRowIndices(data, headerIdx) ==
    {i \in 0..(Len(data) - 1) :
        /\ i >= headerIdx + 1
        /\ i < headerIdx + Min(Lookahead, Len(data) - headerIdx - 1)}

\* whether the loop of lines 13-54 counts the column (0-based colIndex)
ConsistentColumn(data, headerIdx, colIndex) ==
    LET headerRow == data[headerIdx + 1]
        rows == DataRowIndices(data, headerIdx)
        valid == {i \in rows :
                    /\ colIndex < Len(data[i + 1])
                    /\ NonEmpty(data[i + 1][colIndex + 1])}
        types == UNION {CellTypes(data[i + 1][colIndex + 1]) : i \in valid}
    IN  /\ NonEmpty(headerRow[colIndex + 1])
        /\ Cardinality(valid) > 0
        /\ Cardinality(types) <= 2

\* consistentColumns when the loop of lines 13-54 ends
ConsistentColumns(data, headerIdx) ==
    Cardinality({c \in 0..(Len(data[headerIdx + 1]) - 1) :
                    ConsistentColumn(data, headerIdx, c)})

\* evaluateConsistencyOfFollowingRows as the fraction num/den (den > 0)
evaluateConsistencyOfFollowingRows(data, headerIdx) ==
    IF headerIdx >= Len(data) - 1 THEN [num |-> 0, den |-> 1]
    ELSE IF DataRowIndices(data, headerIdx) = {} THEN [num |-> 0, den |-> 1]
    ELSE IF Len(data[headerIdx + 1]) > 0
         THEN [num |-> ConsistentColumns(data, headerIdx),
               den |-> Len(data[headerIdx + 1])]
    ELSE [num |-> 0, den |-> 1]

\* Scores are fixed-point numbers: the integer v stands for the score
\* v / ScoreUnit, and inf marks the score +Infinity (a division by zero).
\* ScaleK is a common multiple of the row lengths and cell counts that occur
\* as divisors, so that every division is exact.
ScaleK == 2 * 2 * 3 * 5 * 7
ScoreUnit == 100 * ScaleK * 100

Finite(v) == [inf |-> FALSE, v |-> v]
Infinite == [inf |-> TRUE, v |-> 0]

\* lines 76-129: the score of the row before the penalties, in units of
\* 1 / (100 * ScaleK)
BaseScore(data, rowIndex) ==
    LET row == data[rowIndex + 1]
        L == Len(row)
        ne == NonEmptyCount(row)
        fillRate == ne * (ScaleK \div L)
        textCellRatio == Cardinality({i \in 1..L : IsTextCell(row[i])}) * (ScaleK \div L)
        headerTermScore == Min(HeaderTermMatches(row) * (ScaleK \div L), ScaleK)
        cons == evaluateConsistencyOfFollowingRows(data, rowIndex)
        consistencyScore == cons.num * (ScaleK \div cons.den)
    IN  IF ne = 0 THEN Infinite
        ELSE Finite(fillRate * WeightFill
                    + textCellRatio * WeightText
                    + headerTermScore * WeightTerms
                    + UniqueValues(row) * (ScaleK \div ne) * WeightUnique
                    + consistencyScore * WeightConsistency)

\* the score before the penalties in ScoreUnit
PrePenaltyScore(data, rowIndex) ==
    LET b == BaseScore(data, rowIndex)
    IN  IF b.inf THEN b ELSE Finite(b.v * 100)

\* variant: the penalty of line 132 is not applied
ApplyPenalties_noForbidden(row, base) ==
    IF base.inf THEN base
    ELSE Finite(base.v * 10 * (IF HasOnlyOneValue(row) THEN OneValueFactor ELSE 10))

\* variant: the two penalties exclude each other (else if)
ApplyPenalties_exclusive(row, base) ==
    IF base.inf THEN base
    ELSE Finite(base.v * (IF HasForbiddenWords(row) THEN ForbiddenFactor * 10
                          ELSE IF HasOnlyOneValue(row) THEN OneValueFactor * 10
                          ELSE 10 * 10))

\* lines 131-133
ApplyPenalties(row, base) ==
    IF base.inf THEN base
    ELSE Finite(base.v * (IF HasForbiddenWords(row) THEN ForbiddenFactor ELSE 10)
                       * (IF HasOnlyOneValue(row) THEN OneValueFactor ELSE 10))

\* the score pushed to rowScores (line 135)
RowScore(data, rowIndex) ==
    ApplyPenalties(data[rowIndex + 1], BaseScore(data, rowIndex))

\* a.score < b.score
ScoreLess(a, b) ==
    IF a.inf THEN FALSE ELSE IF b.inf THEN TRUE ELSE a.v < b.v

\* the comparator of line 142, (a, b) => b.score - a.score: negative when a
\* goes first, positive when b goes first; Infinity - Infinity is NaN, which
\* sort takes as 0
Compare(a, b) ==
    IF ScoreLess(b.score, a.score) THEN 0 - 1
    ELSE IF ScoreLess(a.score, b.score) THEN 1
    ELSE 0

\* rowScores when the loop of lines 72-139 has run over the first n rows
RECURSIVE RowScores(_, _)
RowScores(data, n) ==
    IF n = 0 THEN <<>>
    ELSE IF Len(data[n]) = 0 THEN RowScores(data, n - 1)
    ELSE Append(RowScores(data, n - 1),
                [rowIndex |-> n - 1, score |-> RowScore(data, n - 1)])

\* variant: an unstable sort, x goes ahead of the elements it ties with
Insert_unstable(sorted, x) ==
    LET before == {i \in 1..Len(sorted) : Compare(sorted[i], x) < 0}
        k == IF \E i \in 1..Len(sorted) : i \notin before
             THEN (CHOOSE i \in 1..Len(sorted) :
                     i \notin before /\ \A j \in 1..(i - 1) : j \in before) - 1
             ELSE Len(sorted)
    IN  SubSeq(sorted, 1, k) \o <<x>> \o SubSeq(sorted, k + 1, Len(sorted))

\* Array.prototype.sort is stable: x goes behind every element that does not
\* compare after it
Insert(sorted, x) ==
    LET before == {i \in 1..Len(sorted) : Compare(sorted[i], x) <= 0}
        k == IF \E i \in 1..Len(sorted) : i \notin before
             THEN (CHOOSE i \in 1..Len(sorted) :
                     i \notin before /\ \A j \in 1..(i - 1) : j \in before) - 1
             ELSE Len(sorted)
    IN  SubSeq(sorted, 1, k) \o <<x>> \o SubSeq(sorted, k + 1, Len(sorted))

RECURSIVE Sort(_)
Sort(scores) ==
    IF Len(scores) = 0 THEN <<>>
    ELSE CHOOSE result \in
             { Insert(sorted, scores[Len(scores)]) :
                 sorted \in {Sort(SubSeq(scores, 1, Len(scores) - 1))} } : TRUE

\* rowScores[0].score < 0.2
BelowLowScore(score) == ScoreLess(score, Finite(LowScore * ScaleK * 100))

\* variant: rowScores is an array shared by the calls and never emptied
NewRowScores_shared(previous) == previous

\* const rowScores = [] (line 63): a call creates its own empty array,
\* whatever array the call before it has filled
NewRowScores(previous) == <<>>

\* variant: a row without columns does not use up one of the
\* maxRowsToCheck rows
SortedRowScores_skipFree(initial, data, maxRowsToCheck) ==
    LET w == Min(maxRowsToCheck, Len(data))
        skipped == Cardinality({i \in 1..w : Len(data[i]) = 0})
    IN  Sort(initial \o RowScores(data, Min(maxRowsToCheck + skipped, Len(data))))

\* rowScores after the loop of lines 72-139 and the sort of line 142, for a
\* call whose array starts as initial
SortedRowScores(initial, data, maxRowsToCheck) ==
    CHOOSE sorted \in
        { Sort(initial \o pushed) :
            pushed \in {RowScores(data, Min(maxRowsToCheck, Len(data)))} } : TRUE

\* lines 145-149
SelectHeaderRow(scores) ==
    IF Len(scores) > 0 /\ BelowLowScore(scores[1].score) THEN 0
    ELSE IF Len(scores) > 0 THEN scores[1].rowIndex
    ELSE 0

findHeaderRow(data, maxRowsToCheck) ==
    IF Len(data) = 0 THEN 0
    ELSE SelectHeaderRow(SortedRowScores(<<>>, data, maxRowsToCheck))

\* one call findHeaderRow(data) coming after a call that left the array
\* previous: the index returned and the array the call leaves
findHeaderRowCall(data, previous) ==
    IF Len(data) = 0 THEN [index |-> 0, rowScores |-> previous]
    ELSE CHOOSE call \in
             { [index |-> SelectHeaderRow(scores), rowScores |-> scores] :
                 scores \in {SortedRowScores(NewRowScores(previous), data,
                                             MaxRowsToCheck)} } : TRUE

---------------------------------------------------------------------------
(* The header locator run: one call findHeaderRow(rawData) as readExcelFile *)
(* makes it (headerDetection.js:181).                                      *)

c_empty == Str(<<>>)
c_one == Num(1000)
c_two == Num(2000)
c_x == Str(<<"x">>)
c_y == Str(<<"y">>)
c_z == Str(<<"z">>)
c_id == Str(<<"i","d">>)
c_ID == Str(<<"I","D">>)
c_amt == Str(<<"a","m","t">>)
c_name == Str(<<"n","a","m","e">>)
c_total == Str(<<"T","o","t","a","l">>)
c_report == Str(<<"R","e","p","o","r","t">>)
c_seven == Str(<<"7">>)

\* the rows grids are drawn from: headers, banner rows, data rows, blank rows
GridRows ==
    { <<>>,
      <<c_empty, c_empty, c_empty>>,
      <<c_id, c_amt, c_name>>,
      <<c_x, c_y, c_z>>,
      <<c_y, c_z, c_x>>,
      <<c_ID, c_id, c_empty>>,
      <<c_report, c_empty, c_empty>>,
      <<c_total, c_id, c_name>>,
      <<c_one, c_empty, c_empty>>,
      <<c_one, c_one, c_empty>>,
      <<c_one, c_x, c_two>>,
      <<c_seven, c_x>> }

Grids == {<<>>} \cup SeqsUpTo(GridRows, MaxGridRows)

ReconIdle ==
    /\ pc = "idle"
    /\ remittanceData = <<>>
    /\ submissionData = <<>>
    /\ amtFieldName = Undefined
    /\ remittanceIdField = Undefined
    /\ submissionIdField = Undefined
    /\ remittanceAmtSumByID = <<>>
    /\ remittanceIds = <<>>
    /\ matchedRows = <<>>
    /\ unmatchedRows = <<>>
    /\ enhancedMatchedRows = <<>>

InitHeader ==
    /\ hpc = "ready"
    /\ jsonData \in Grids
    /\ headerRowIndex = 0 - 1
    /\ ReconIdle
    /\ FilesIdle
    /\ UIIdle

\* headerDetection.js:181
FindHeaderRow ==
    /\ hpc = "ready"
    /\ hpc' = "done"
    /\ headerRowIndex' = findHeaderRow(jsonData, MaxRowsToCheck)
    /\ UNCHANGED uiVars
    /\ UNCHANGED <<jsonData, reconVars, fileVars>>

NextHeader == FindHeaderRow

SpecHeader == InitHeader /\ [][NextHeader]_vars

---------------------------------------------------------------------------
(* Properties of the header locator.                                       *)

\* the 0-based indices of the rows of the scan window
ScanWindow == 0..(Min(MaxRowsToCheck, Len(jsonData)) - 1)
\* the rows of the scan window that are scored
ScoredRows == {i \in ScanWindow : Len(jsonData[i + 1]) > 0}

Located == hpc = "done"

\* The features as section 4.1 of the specification defines them, each a
\* fraction [num, den] with den > 0.
Frac(n, d) == [num |-> n, den |-> d]
FracLess(a, b) == a.num * b.den < b.num * a.den

SpecFillRate(row) == Frac(NonEmptyCount(row), Len(row))
SpecTextRatio(row) ==
    Frac(Cardinality({i \in 1..Len(row) : IsTextCell(row[i])}), Len(row))
SpecTermScore(row) == Frac(Min(HeaderTermMatches(row), Len(row)), Len(row))
\* distinct lowercased stringified non-empty values over the non-empty
\* cells, 0 when there is none
SpecUniquenessRatio(row) ==
    IF NonEmptyCount(row) = 0 THEN Frac(0, 1)
    ELSE Frac(Cardinality({UniqueKey(row[i]) :
                              i \in {j \in 1..Len(row) : NonEmpty(row[j])}}),
              NonEmptyCount(row))
\* the lookahead window r+1 .. r+min(4, rowCount-r-1)
SpecWindow(data, r) ==
    {i \in 0..(Len(data) - 1) :
        i >= r + 1 /\ i <= r + Min(4, Len(data) - r - 1)}
SpecColumnTypes(data, r, c) ==
    UNION {CellTypes(data[i + 1][c + 1]) :
             i \in {j \in SpecWindow(data, r) :
                      c < Len(data[j + 1]) /\ NonEmpty(data[j + 1][c + 1])}}
\* the non-empty-header columns that have a value in the lookahead window
SpecDataColumns(data, r) ==
    {c \in 0..(Len(data[r + 1]) - 1) :
        /\ NonEmpty(data[r + 1][c + 1])
        /\ \E i \in SpecWindow(data, r) :
              c < Len(data[i + 1]) /\ NonEmpty(data[i + 1][c + 1])}
SpecConsistencyScore(data, r) ==
    LET cols == SpecDataColumns(data, r)
    IN  IF cols = {} THEN Frac(0, 1)
        ELSE Frac(Cardinality({c \in cols :
                     Cardinality(SpecColumnTypes(data, r, c)) <= 2}),
                  Cardinality(cols))

\* row k is a clean header: all cells non-empty, all text, all unique,
\* consistent types in the following rows, no noise word, more than one
\* non-empty cell
CleanHeader(data, k) ==
    LET row == data[k + 1]
    IN  /\ Len(row) > 1
        /\ \A i \in 1..Len(row) : NonEmpty(row[i]) /\ IsTextCell(row[i])
        /\ SpecUniquenessRatio(row) = Frac(Len(row), Len(row))
        /\ SpecConsistencyScore(data, k).num > 0
        /\ SpecConsistencyScore(data, k).num = SpecConsistencyScore(data, k).den
        /\ ~HasForbiddenWords(row)

\* row j is worse than row k on every feature
WorseOnEveryFeature(data, j, k) ==
    /\ FracLess(SpecFillRate(data[j + 1]), SpecFillRate(data[k + 1]))
    /\ FracLess(SpecTextRatio(data[j + 1]), SpecTextRatio(data[k + 1]))
    /\ FracLess(SpecTermScore(data[j + 1]), SpecTermScore(data[k + 1]))
    /\ FracLess(SpecUniquenessRatio(data[j + 1]), SpecUniquenessRatio(data[k + 1]))
    /\ FracLess(SpecConsistencyScore(data, j), SpecConsistencyScore(data, k))

\* C8: when row k of the scan window is a clean header and every other
\* scored row of the window is worse on every feature (rows without a
\* non-empty cell included), findHeaderRow returns k.
C8_CleanHeaderSelected ==
    Located =>
        \A k \in ScoredRows :
            ( /\ CleanHeader(jsonData, k)
              /\ \A j \in ScoredRows \ {k} : WorseOnEveryFeature(jsonData, j, k) )
            => headerRowIndex = k

\* a scored row with a noise word scores at most 0.3 times its pre-penalty
\* score
NoisePenalised ==
    \A i \in ScoredRows :
        HasForbiddenWords(jsonData[i + 1]) =>
            /\ ~RowScore(jsonData, i).inf
            /\ ~PrePenaltyScore(jsonData, i).inf
            /\ 10 * RowScore(jsonData, i).v
                 <= ForbiddenFactor * PrePenaltyScore(jsonData, i).v

NoisyRowReturned ==
    /\ headerRowIndex \in ScoredRows
    /\ HasForbiddenWords(jsonData[headerRowIndex + 1])

NoHigherScore(i) ==
    \A j \in ScoredRows \ {i} :
        ~ScoreLess(RowScore(jsonData, i), RowScore(jsonData, j))

\* the original C9: a row with a noise word scores at most 0.3 times its
\* pre-penalty score and is returned only if no other row of the window has
\* a strictly higher score.
C9_NoisyRowOnlyIfHighest ==
    Located =>
        /\ NoisePenalised
        /\ (NoisyRowReturned => NoHigherScore(headerRowIndex))

\* C9: a row with a noise word scores at most 0.3 times its pre-penalty
\* score, and is returned only if no other row of the window has a strictly
\* higher score or it is row 0, returned because every score is below 0.2.
C9_NoisyRowOnlyIfHighestOrDefault ==
    Located =>
        /\ NoisePenalised
        /\ (NoisyRowReturned =>
              \/ NoHigherScore(headerRowIndex)
              \/ /\ headerRowIndex = 0
                 /\ \A j \in ScoredRows : BelowLowScore(RowScore(jsonData, j)))

\* a noisy row is returned although the window holds other scored rows
C9_Witness ==
    /\ Located
    /\ NoisyRowReturned
    /\ headerRowIndex > 0
    /\ ScoredRows \ {headerRowIndex} # {}

\* the row with the maximum score, the lowest index among equal scores
IsBestRow(i) ==
    /\ i \in ScoredRows
    /\ \A si \in {RowScore(jsonData, i)} :
          \A j \in ScoredRows :
              \A sj \in {RowScore(jsonData, j)} :
                  /\ ~ScoreLess(si, sj)
                  /\ j < i => ScoreLess(sj, si)

\* C10: findHeaderRow returns 0 for a grid without rows (and when no row of
\* the window is scored); otherwise the row of maximum score, the lowest index
\* among equal maxima, but 0 when that maximum is below 0.2.
C10_Selection ==
    Located =>
        IF Len(jsonData) = 0 \/ ScoredRows = {} THEN headerRowIndex = 0
        ELSE \E i \in ScoredRows :
                /\ IsBestRow(i)
                /\ headerRowIndex =
                     (IF BelowLowScore(RowScore(jsonData, i)) THEN 0 ELSE i)

\* two rows tie at a maximum of at least 0.2 and the earlier one, not row 0,
\* is returned
C10_Witness ==
    /\ Located
    /\ headerRowIndex > 0
    /\ IsBestRow(headerRowIndex)
    /\ ~BelowLowScore(RowScore(jsonData, headerRowIndex))
    /\ \E j \in ScoredRows :
          /\ j > headerRowIndex
          /\ RowScore(jsonData, j) = RowScore(jsonData, headerRowIndex)


---------------------------------------------------------------------------
(* The header locator on grids deeper than its scan window.                *)

\* the number of rows drawn after the scan window
MaxDeepRows == 6

\* the longest of the grids drawn that are shorter than the scan window
MaxShallowRows == 2

\* ten rows: a first row, seven single-value rows, a ninth row that may have
\* no column, a tenth row
DeepFirstRows == { <<c_id, c_amt, c_name>>, <<c_one, c_empty, c_empty>> }
DeepNinthRows == { <<c_one, c_empty, c_empty>>, <<>> }
DeepTenthRows == { <<c_x, c_y, c_z>>, <<c_one, c_empty, c_empty>> }
DeepWindows ==
    { <<f>> \o [i \in 1..(MaxRowsToCheck - 3) |-> <<c_one, c_empty, c_empty>>]
            \o <<m, t>> :
        f \in DeepFirstRows, m \in DeepNinthRows, t \in DeepTenthRows }
\* the rows after the scan window: data rows and blank rows
DeepRows == { <<c_one, c_x, c_two>>, <<c_empty, c_empty, c_empty>> }
DeepTails == UNION {[1..k -> DeepRows] : k \in 0..MaxDeepRows}
\* grids of ten rows and more, and the grids of at most MaxShallowRows rows
DeepGrids ==
    { w \o t : w \in DeepWindows, t \in DeepTails }
        \cup SeqsUpTo(GridRows, MaxShallowRows)

InitDeep ==
    /\ hpc = "ready"
    /\ jsonData \in DeepGrids
    /\ headerRowIndex = 0 - 1
    /\ ReconIdle
    /\ FilesIdle
    /\ UIIdle

SpecDeep == InitDeep /\ [][NextHeader]_vars

\* g and h have the same number of rows and the same first min(n, rows) rows
AgreeOnFirst(g, h, n) ==
    /\ Len(g) = Len(h)
    /\ \A i \in 1..Min(n, Len(g)) : g[i] = h[i]

\* the number of leading rows a call can read: the scan window and the
\* lookahead of its last row (lines 6 and 64)
ReadDepth == MaxRowsToCheck + Lookahead - 1

\* C11 (as stated): two grids with the same number of rows that agree on
\* their first min(10, rowCount) rows give the same findHeaderRow result,
\* whatever the rows of index 10 and deeper hold.
C11_ScanWindowOnly ==
    Located =>
        \A h \in DeepGrids :
            AgreeOnFirst(jsonData, h, MaxRowsToCheck)
                => findHeaderRow(h, MaxRowsToCheck) = headerRowIndex

\* C11 (amended): two grids with the same number of rows that agree on their
\* first min(14, rowCount) rows give the same findHeaderRow result, whatever
\* the rows of index 14 and deeper hold; the result is an index of the scan
\* window.
C11_ReadDepthOnly ==
    Located =>
        /\ headerRowIndex \in 0..(MaxRowsToCheck - 1)
        /\ \A h \in DeepGrids :
              AgreeOnFirst(jsonData, h, ReadDepth)
                  => findHeaderRow(h, MaxRowsToCheck) = headerRowIndex

\* a call on a grid that has a different grid agreeing with it on the first
\* 14 rows, and a grid differing from it at row 10 only that gives another row
C11_Witness ==
    /\ Located
    /\ \E h \in DeepGrids : h # jsonData /\ AgreeOnFirst(jsonData, h, ReadDepth)
    /\ \E h \in DeepGrids :
          /\ AgreeOnFirst(jsonData, h, MaxRowsToCheck)
          /\ \A i \in 1..Len(h) : i # MaxRowsToCheck + 1 => h[i] = jsonData[i]
          /\ findHeaderRow(h, MaxRowsToCheck) # headerRowIndex


---------------------------------------------------------------------------
(* Blank rows.                                                             *)

\* the scored rows that have at least one column and no non-empty cell
BlankScoredRows == {i \in ScoredRows : NonEmptyCount(jsonData[i + 1]) = 0}

\* C20: every scanned row with at least one column but no non-empty cell has
\* uniqueness ratio 0 (no division by zero), so its score is a finite number.
C20_BlankRowScoreFinite ==
    Located => \A i \in BlankScoredRows : ~RowScore(jsonData, i).inf


---------------------------------------------------------------------------
(* A target file without identifier column.                                *)

\* no label of the target headers contains "claim" or is "id", and no target
\* record holds a field "Claim ID"
MissingIdColumn ==
    /\ Len(submissionData) > 0
    /\ \A i \in 1..Len(submissionData[1]) :
          /\ ~includes(toLowerCase(submissionData[1][i].k), s_claim)
          /\ toLowerCase(submissionData[1][i].k) # s_id
    /\ \A i \in 1..Len(submissionData) : ~HasKey(submissionData[i], s_ClaimID)

\* some source identifier is undefined (remittanceIds is the Set of the
\* source identifiers, part_000:85)
SourceIdUndefined == \E j \in 1..Len(remittanceIds) : remittanceIds[j] = Undefined

\* C12: when the target headers hold no identifier label the identifier field
\* is the literal "Claim ID"; when no target record holds that field every
\* target identifier is undefined and the target records all go to the same
\* list: all unmatched, or all matched when some source identifier is
\* undefined too; the run does not end in the error outcome.
C12_MissingIdColumn ==
    MissingIdColumn =>
        /\ pc # "error"
        /\ pc \in {"ids", "matched"} =>
              /\ submissionIdField = Str(s_ClaimID)
              /\ \A i \in 1..Len(submissionData) :
                    TargetId(submissionData[i]) = Undefined
        /\ pc = "matched" =>
              IF SourceIdUndefined
              THEN matchedRows = submissionData /\ unmatchedRows = <<>>
              ELSE matchedRows = <<>> /\ unmatchedRows = submissionData

\* two target records without identifier matched by an undefined source
\* identifier
C12_Witness ==
    /\ pc = "matched"
    /\ MissingIdColumn
    /\ SourceIdUndefined
    /\ Len(matchedRows) = 2


---------------------------------------------------------------------------
(* Order of the results.                                                   *)

\* sub is seq with some elements left out
IsSubsequence(sub, seq) ==
    \E I \in SUBSET (1..Len(seq)) : sub = Restrict(seq, I, Len(seq))

\* out holds every field of the record in, the two enrichment fields aside,
\* with the value it has in in
OriginalFieldsKept(out, in) ==
    \A i \in 1..Len(in) :
        in[i].k \notin {s_RemitAmt, s_RejectedAmount}
            => HasKey(out, in[i].k) /\ Get(out, in[i].k) = in[i].v

\* C14: matchedRows and unmatchedRows each list their records in the order
\* they have in the target file, and processMatchedData returns one record per
\* matched record, in the order of matchedRows.
C14_OrderPreserved ==
    /\ pc \in {"matched", "done"} =>
          /\ IsSubsequence(matchedRows, submissionData)
          /\ IsSubsequence(unmatchedRows, submissionData)
    /\ pc = "done" =>
          /\ Len(enhancedMatchedRows) = Len(matchedRows)
          /\ \A i \in 1..Len(matchedRows) :
                OriginalFieldsKept(enhancedMatchedRows[i], matchedRows[i])

\* a finished run with two different matched records
C14_Witness ==
    /\ pc = "done"
    /\ Len(matchedRows) = 2
    /\ TargetId(matchedRows[1]) # TargetId(matchedRows[2])
    /\ Len(enhancedMatchedRows) = 2


---------------------------------------------------------------------------
(* Matched records without amount field.                                   *)

\* C15: a matched record none of whose labels is "amt" (case-insensitively)
\* is returned by processMatchedData with exactly its own fields, values
\* and field order; no Remit Amt and no Rejected Amount is added.
C15_NoAmtFieldUnchanged ==
    pc = "done" =>
        /\ Len(enhancedMatchedRows) = Len(matchedRows)
        /\ \A i \in 1..Len(matchedRows) :
              (\A j \in 1..Len(matchedRows[i]) :
                    toLowerCase(matchedRows[i][j].k) # s_amt)
                => enhancedMatchedRows[i] = matchedRows[i]

\* a finished run with a matched record that has no amt field
C15_Witness ==
    /\ pc = "done"
    /\ \E i \in 1..Len(matchedRows) :
          /\ \A j \in 1..Len(matchedRows[i]) :
                toLowerCase(matchedRows[i][j].k) # s_amt
          /\ enhancedMatchedRows[i] = matchedRows[i]


---------------------------------------------------------------------------
(* Column identification.                                                  *)

Identified == pc \in {"identified", "mapped", "ids", "matched", "done"}

\* the labels of the source file and of the target file
SourceHeaders == Keys(remittanceData[1])
TargetHeaders == Keys(submissionData[1])

\* field is the first label of headers whose position is in hits, as a
\* string value
IsFirstOf(field, headers, hits) ==
    \E i \in hits : (\A j \in hits : i <= j) /\ field = Str(headers[i])

\* C16: for the source role the amount field is the first label whose
\* lowercased form equals "amt" or contains "amount" (undefined if there is
\* none), and the identifier field is the first label whose lowercased form
\* equals "id" or "billno", or the first label when there is none.
C16_SourceColumns ==
    Identified =>
        LET amtHits == {i \in 1..Len(SourceHeaders) :
                          \/ toLowerCase(SourceHeaders[i]) = s_amt
                          \/ includes(toLowerCase(SourceHeaders[i]), s_amount)}
            idHits == {i \in 1..Len(SourceHeaders) :
                          toLowerCase(SourceHeaders[i]) \in {s_id, s_billno}}
        IN  /\ IF amtHits # {}
               THEN IsFirstOf(amtFieldName, SourceHeaders, amtHits)
               ELSE amtFieldName = Undefined
            /\ IF idHits # {}
               THEN IsFirstOf(remittanceIdField, SourceHeaders, idHits)
               ELSE remittanceIdField = Str(SourceHeaders[1])

\* a source file with two amount-like labels and two identifier labels, none
\* of them first in its class by accident: "Total Amount" is taken, not "Amt"
C16_Witness ==
    /\ pc = "identified"
    /\ SourceHeaders = SourceLabels2
    /\ amtFieldName = Str(SourceLabels2[1])
    /\ remittanceIdField = Str(SourceLabels2[2])

\* C17: the target role yields no amount field; its identifier field is the
\* first label whose lowercased form contains "claim" or equals "id", or the
\* literal "Claim ID" when there is none.
C17_TargetColumns ==
    Identified =>
        LET idHits == {i \in 1..Len(TargetHeaders) :
                          \/ includes(toLowerCase(TargetHeaders[i]), s_claim)
                          \/ toLowerCase(TargetHeaders[i]) = s_id}
        IN  /\ identifyColumns(TargetHeaders, "submission").amtFieldName = Undefined
            /\ IF idHits # {}
               THEN IsFirstOf(submissionIdField, TargetHeaders, idHits)
               ELSE submissionIdField = Str(s_ClaimID)

\* a target file with two identifier labels: the first one is taken
C17_Witness ==
    /\ pc = "identified"
    /\ TargetHeaders = TargetLabels6
    /\ submissionIdField = Str(TargetLabels6[1])


---------------------------------------------------------------------------
(* The reading of the two files (readExcelFile, headerDetection.js:154-264) *)
(* followed by the reconciliation run: processFiles, part_000:47-107.      *)
(* A worksheet is the grid of its cell values, rows of one width, its range *)
(* starting at A1; the cell '' stands for a position without cell object.  *)
(* Date cells are not drawn.                                               *)

\* worksheet[cellRef] is defined
CellExists(v) == v # Str(<<>>)

\* the row object of lines 207-248 after the first n columns
RECURSIVE SheetRecord(_, _, _)
SheetRecord(headerRow, cells, n) ==
    IF n = 0 THEN <<>>
    ELSE CHOOSE result \in
             { IF ~CellExists(headerRow[n]) THEN prev
               ELSE Set(prev, JSToString(headerRow[n]),
                        IF CellExists(cells[n]) THEN cells[n] ELSE Str(<<>>)) :
                 prev \in {SheetRecord(headerRow, cells, n - 1)} } : TRUE

\* isEmpty of lines 210-247: no cell exists under a header
IsEmptyRow(headerRow, cells) ==
    \A c \in 1..Len(headerRow) : CellExists(headerRow[c]) => ~CellExists(cells[c])

\* finalData after the rows up to the n-th of the worksheet (lines 206-253)
RECURSIVE FinalData(_, _, _)
FinalData(worksheet, headerIdx, n) ==
    IF n <= headerIdx + 1 THEN <<>>
    ELSE LET headerRow == worksheet[headerIdx + 1]
         IN  CHOOSE result \in
                 { IF IsEmptyRow(headerRow, worksheet[n]) THEN prev
                   ELSE Append(prev, SheetRecord(headerRow, worksheet[n], Len(headerRow))) :
                     prev \in {FinalData(worksheet, headerIdx, n - 1)} } : TRUE

\* readExcelFile on a worksheet, after a findHeaderRow call that left the
\* array previous: rawData is the grid of the worksheet (lines 175-178)
readExcelFile(worksheet, previous) ==
    LET rawData == worksheet
    IN  CHOOSE result \in
            { [headerRowIndex |-> call.index,
               finalData |-> FinalData(worksheet, call.index, Len(worksheet)),
               rowScores |-> call.rowScores] :
                call \in {findHeaderRowCall(rawData, previous)} } : TRUE

\* the worksheets drawn: an optional banner row, a header row, data rows
BannerRow == <<c_report, c_empty>>
SourceHeaderRow == <<c_ID, Str(s_Amt)>>
SourceSheetRows == { <<id_A, Num(10000)>>, <<num_7, Num(20500)>> }
TargetHeaderRow == <<Str(s_ClaimID), Str(s_Amt)>>
TargetSheetRows == { <<id_A, Num(100000)>>, <<id_7, Num(80000)>> }
SheetsOf(headerRow, rows) ==
    {<<>>} \cup { b \o <<headerRow>> \o d :
                    b \in {<<>>, <<BannerRow>>},
                    d \in {<<>>} \cup SeqsUpTo(rows, MaxSheetRows) }
\* a worksheet whose data row has no cell in the identifier column
SourceSheetNoId == <<SourceHeaderRow, <<c_empty, Num(10000)>>>>
TargetSheetNoId == <<TargetHeaderRow, <<c_empty, Num(50000)>>>>
SourceSheets == SheetsOf(SourceHeaderRow, SourceSheetRows) \cup {SourceSheetNoId}
TargetSheets == SheetsOf(TargetHeaderRow, TargetSheetRows) \cup {TargetSheetNoId}

InitFiles ==
    /\ pc = "start"
    /\ remittanceSheet \in SourceSheets
    /\ submissionSheet \in TargetSheets
    /\ remittanceHeaderRow = 0 - 1
    /\ submissionHeaderRow = 0 - 1
    /\ readDone = {}
    /\ rowScores = <<>>
    /\ remittanceData = <<>>
    /\ submissionData = <<>>
    /\ amtFieldName = Undefined
    /\ remittanceIdField = Undefined
    /\ submissionIdField = Undefined
    /\ remittanceAmtSumByID = <<>>
    /\ remittanceIds = <<>>
    /\ matchedRows = <<>>
    /\ unmatchedRows = <<>>
    /\ enhancedMatchedRows = <<>>
    /\ HeaderIdle
    /\ UIIdle

BothRead == {"remittance", "submission"}

\* part_000:49. processFiles awaits this promise before it starts the other;
\* the two calls take nothing from each other, and their order is left open.
ReadRemittance ==
    /\ pc = "start"
    /\ "remittance" \notin readDone
    /\ \E r \in {readExcelFile(remittanceSheet, rowScores)} :
           /\ remittanceHeaderRow' = r.headerRowIndex
           /\ remittanceData' = r.finalData
           /\ rowScores' = r.rowScores
    /\ readDone' = readDone \cup {"remittance"}
    /\ pc' = IF readDone' = BothRead THEN "read" ELSE "start"
    /\ UNCHANGED uiVars
    /\ UNCHANGED <<submissionData, amtFieldName, remittanceIdField,
                   submissionIdField, remittanceAmtSumByID, remittanceIds,
                   matchedRows, unmatchedRows, enhancedMatchedRows, headerVars,
                   remittanceSheet, submissionSheet, submissionHeaderRow>>

\* part_000:53
ReadSubmission ==
    /\ pc = "start"
    /\ "submission" \notin readDone
    /\ \E r \in {readExcelFile(submissionSheet, rowScores)} :
           /\ submissionHeaderRow' = r.headerRowIndex
           /\ submissionData' = r.finalData
           /\ rowScores' = r.rowScores
    /\ readDone' = readDone \cup {"submission"}
    /\ pc' = IF readDone' = BothRead THEN "read" ELSE "start"
    /\ UNCHANGED uiVars
    /\ UNCHANGED <<remittanceData, amtFieldName, remittanceIdField,
                   submissionIdField, remittanceAmtSumByID, remittanceIds,
                   matchedRows, unmatchedRows, enhancedMatchedRows, headerVars,
                   remittanceSheet, submissionSheet, remittanceHeaderRow>>

NextFiles ==
    \/ ReadRemittance
    \/ ReadSubmission
    \/ IdentifyColumns
    \/ CreateRemittanceMapping
    \/ ExtractIds
    \/ FindMatchingRecords
    \/ ProcessMatchedData

SpecFiles == InitFiles /\ [][NextFiles]_vars

---------------------------------------------------------------------------
(* Properties of the whole run.                                            *)

\* C13: when a file yields zero rows, and so no record, the run does not end
\* in the error outcome: findHeaderRow returns 0, the later stages get the
\* empty record list and the run ends with (possibly empty) result lists.
C13_EmptyInputNoError ==
    /\ (Len(remittanceSheet) = 0 /\ "remittance" \in readDone) =>
          /\ remittanceHeaderRow = 0
          /\ remittanceData = <<>>
          /\ pc # "error"
    /\ (Len(submissionSheet) = 0 /\ "submission" \in readDone) =>
          /\ submissionHeaderRow = 0
          /\ submissionData = <<>>
          /\ pc # "error"


\* C18: no stage changes what it is given. The worksheets, the source and
\* target records once read, and the rows handed to processMatchedData stay
\* as they are through every step; every unmatched record is a target record
\* with its fields and values as read.
C18_InputsUnchanged ==
    /\ [][ /\ remittanceSheet' = remittanceSheet
           /\ submissionSheet' = submissionSheet
           /\ "remittance" \in readDone => remittanceData' = remittanceData
           /\ "submission" \in readDone => submissionData' = submissionData
           /\ pc = "matched" =>
                 matchedRows' = matchedRows /\ unmatchedRows' = unmatchedRows
         ]_vars
    /\ [](pc \in {"matched", "done"} =>
            \A i \in 1..Len(unmatchedRows) :
                \E j \in 1..Len(submissionData) :
                    unmatchedRows[i] = submissionData[j])

\* a finished run that enriched a matched record and left a record unmatched
C18_Witness ==
    /\ pc = "done"
    /\ Len(unmatchedRows) > 0
    /\ Len(matchedRows) > 0
    /\ enhancedMatchedRows # matchedRows
    /\ readDone = BothRead

\* what reading a worksheet on its own gives
ExpectedHeaderRow(worksheet) == findHeaderRow(worksheet, MaxRowsToCheck)
ExpectedData(worksheet) ==
    FinalData(worksheet, ExpectedHeaderRow(worksheet), Len(worksheet))

\* the result lists of a run on the two worksheets, each read on its own
ExpectedResult ==
    LET src == ExpectedData(remittanceSheet)
        tgt == ExpectedData(submissionSheet)
        r == identifyColumns(Keys(src[1]), "remittance")
        t == identifyColumns(Keys(tgt[1]), "submission")
        sums == createRemittanceMapping(src, r.idField, r.amtFieldName).remittanceAmtSumByID
        ids == NewSet([i \in 1..Len(src) |-> GetV(src[i], r.idField)])
        m == findMatchingRecords(tgt, ids, t.idField)
    IN  [matched |-> processMatchedData(m.matchedRows, t.idField, sums),
         unmatched |-> m.unmatchedRows]

\* C19: the header row found for a file, the records read from it and the
\* result lists of the run are those of the worksheets alone, whichever file
\* is read first: the two findHeaderRow calls share nothing.
C19_OrderIndependent ==
    /\ "remittance" \in readDone =>
          /\ remittanceHeaderRow = ExpectedHeaderRow(remittanceSheet)
          /\ remittanceData = ExpectedData(remittanceSheet)
    /\ "submission" \in readDone =>
          /\ submissionHeaderRow = ExpectedHeaderRow(submissionSheet)
          /\ submissionData = ExpectedData(submissionSheet)
    /\ pc = "done" =>
          /\ enhancedMatchedRows = ExpectedResult.matched
          /\ unmatchedRows = ExpectedResult.unmatched

\* the submission file read first, its header row under a banner, while the
\* header row of the remittance file is its first row
C19_Witness ==
    /\ readDone = {"submission"}
    /\ submissionHeaderRow = 1
    /\ Len(remittanceSheet) > 1
    /\ remittanceSheet[1] = SourceHeaderRow


---------------------------------------------------------------------------
(* The consistency score.                                                  *)

\* C21: for a candidate row r the consistency score is computed over exactly
\* the rows r+1 .. r+min(4, rowCount-r-1): the last row of the grid is in the
\* window when fewer than 5 rows follow r, and a header followed by a single
\* data row has a non-empty window.
C21_LookaheadWindow ==
    Located =>
        \A r \in ScoredRows :
            DataRowIndices(jsonData, r) = SpecWindow(jsonData, r)

\* the columns of row r whose header cell is not empty
NonEmptyHeaderColumns(data, r) ==
    {c \in 0..(Len(data[r + 1]) - 1) : NonEmpty(data[r + 1][c + 1])}

\* C22: in the consistency score of row r the columns with an empty header
\* cell count neither in the numerator nor in the denominator: the score is
\* the number of consistent non-empty-header columns over the number of
\* non-empty-header columns, so it is 1 when all of these are consistent.
C22_EmptyHeaderColumnsExcluded ==
    Located =>
        \A r \in ScoredRows :
            LET cols == NonEmptyHeaderColumns(jsonData, r)
                consistent == {c \in cols : ConsistentColumn(jsonData, r, c)}
                score == evaluateConsistencyOfFollowingRows(jsonData, r)
            IN  (cols # {} /\ DataRowIndices(jsonData, r) # {}) =>
                    /\ score.num * Cardinality(cols)
                         = Cardinality(consistent) * score.den
                    /\ consistent = cols => score.num = score.den


---------------------------------------------------------------------------
(* The index returned.                                                     *)

\* C23: for every non-empty grid the index returned is one of
\* 0 .. min(10, rowCount) - 1; a row without columns is not scored, so it is
\* returned only as the default row 0, and it still is one of the (at most)
\* ten rows scanned: no row of index 10 or more is ever returned.
C23_IndexInScanWindow ==
    (Located /\ Len(jsonData) > 0) =>
        /\ headerRowIndex \in 0..(Min(MaxRowsToCheck, Len(jsonData)) - 1)
        /\ headerRowIndex \in ScoredRows \/ headerRowIndex = 0

\* a call on a grid of more than ten rows with a row without columns among
\* the first ten and a row after them that outscores each of the first ten
C23_Witness ==
    /\ Located
    /\ Len(jsonData) > MaxRowsToCheck
    /\ \E i \in ScanWindow : Len(jsonData[i + 1]) = 0
    /\ \A i \in ScoredRows :
          ScoreLess(RowScore(jsonData, i), RowScore(jsonData, MaxRowsToCheck))


---------------------------------------------------------------------------
(* The penalties.                                                          *)

\* the rows of the scan window that are scored and have the given penalty
\* conditions
PenalisedRows(noise, single) ==
    {i \in ScoredRows : /\ HasForbiddenWords(jsonData[i + 1]) = noise
                        /\ HasOnlyOneValue(jsonData[i + 1]) = single}

\* C24: the two penalties are multiplicative and independent of each other:
\* the score of a row with a noise word and a single non-empty cell is 0.06
\* times its combined score, the score of a row with one of the two
\* conditions is 0.3 (noise word) or 0.2 (single cell) times its combined
\* score, and the score of a row with neither is the combined score
\* 0.20 fill + 0.25 text + 0.10 term + 0.15 uniq + 0.30 cons.
\* (Scores are in units of 1 / ScoreUnit, combined scores in units of
\* 1 / (100 * ScaleK).)
C24_PenaltiesMultiply ==
    Located =>
        \A i \in ScoredRows :
            \A combined \in {BaseScore(jsonData, i)}, score \in {RowScore(jsonData, i)} :
                LET noise == HasForbiddenWords(jsonData[i + 1])
                    single == HasOnlyOneValue(jsonData[i + 1])
                    hundredths == IF noise /\ single THEN 6
                                  ELSE IF noise THEN 30
                                  ELSE IF single THEN 20
                                  ELSE 100
                IN  IF combined.inf THEN score.inf
                    ELSE ~score.inf /\ score.v = combined.v * hundredths

\* a call on a grid with a row that has both conditions, a row that has the
\* noise word only and a row that has the single cell only
C24_Witness ==
    /\ Located
    /\ \A noise \in BOOLEAN, single \in BOOLEAN :
          (noise \/ single) =>
              \E i \in PenalisedRows(noise, single) :
                  ~BaseScore(jsonData, i).inf /\ BaseScore(jsonData, i).v > 0


---------------------------------------------------------------------------
(* The range of the features.                                              *)

\* C25: every feature of a scored row lies in [0, 1], so its combined score
\* lies in [0, 1]; in particular the uniqueness ratio of a row that mixes
\* empty and non-empty cells is at most 1.
C25_FeaturesInUnitInterval ==
    Located =>
        \A i \in ScoredRows :
            LET row == jsonData[i + 1]
                ne == NonEmptyCount(row)
                cons == evaluateConsistencyOfFollowingRows(jsonData, i)
                combined == BaseScore(jsonData, i)
            IN  /\ ne <= Len(row)
                /\ Cardinality({c \in 1..Len(row) : IsTextCell(row[c])}) <= Len(row)
                /\ cons.num >= 0 /\ cons.num <= cons.den
                /\ ne > 0 => UniqueValues(row) <= ne
                /\ ~combined.inf
                /\ combined.v >= 0 /\ combined.v <= 100 * ScaleK


---------------------------------------------------------------------------
(* Target records that already carry the enrichment fields.                *)

\* the matched records with an amt-named field that already hold a field
\* named "Remit Amt" or "Rejected Amount"
AlreadyEnriched ==
    {i \in 1..Len(matchedRows) :
        /\ HasAmtField(matchedRows[i])
        /\ \/ HasKey(matchedRows[i], s_RemitAmt)
           \/ HasKey(matchedRows[i], s_RejectedAmount)}

\* C26: when the target record already carries a field named "Remit Amt" or
\* "Rejected Amount", before or after its amt field, the returned record
\* still has "Remit Amt" equal to the aggregate and "Rejected Amount" equal
\* to the variance computed by the run.
C26_ComputedValuesWin ==
    pc = "done" =>
        \A i \in AlreadyEnriched :
            LET remit == OrZero(GetV(remittanceAmtSumByID, TargetId(matchedRows[i])))
                orig == OrZero(parseFloat(Get(matchedRows[i], s_Amt)))
                variance == Num(Round2(orig.n - remit.n))
            IN  /\ Get(enhancedMatchedRows[i], s_RemitAmt) = remit
                /\ Get(enhancedMatchedRows[i], s_RejectedAmount) = variance


---------------------------------------------------------------------------
(* The two columns of the source file.                                     *)

\* C27: for the source role the identifier field and the amount field are
\* never the same column, whatever the (non-empty) list of labels, also when
\* the identifier falls back to the first label.
C27_SourceColumnsDistinct ==
    Identified => remittanceIdField # amtFieldName


---------------------------------------------------------------------------
(* Records without identifier.                                             *)

\* C28: a target record whose identifier cell is empty (identifier '') is
\* never matched and never receives "Remit Amt", whatever the source file
\* holds, source records with an empty identifier cell included.
C28_EmptyIdNeverMatched ==
    pc \in {"matched", "done"} =>
        /\ \A i \in 1..Len(matchedRows) :
              TargetId(matchedRows[i]) # Str(<<>>)
        /\ \A i \in 1..Len(enhancedMatchedRows) :
              TargetId(enhancedMatchedRows[i]) = Str(<<>>)
                  => ~HasKey(enhancedMatchedRows[i], s_RemitAmt)


---------------------------------------------------------------------------
(* The ExcelMatcher component (part_000): the two file inputs, the         *)
(* "Process Files" button and the runs of processFiles.  The file chosen   *)
(* is modelled by its first worksheet, the error message by its fixed      *)
(* text; the status and debug texts are only written and are left out.     *)

\* a File object, as its first worksheet
File(sheet) == [t |-> "file", sheet |-> sheet]
\* an array of records held in the component state
Array(rows) == [t |-> "array", rows |-> rows]

MsgUploadBoth == "Please upload both files"
MsgProcessing == "Error processing files"

\* a bound for the processFiles calls in progress
MaxRunning == 2

\* the worksheets of the files the user chooses from
UISourceSheets == { <<>>, <<SourceHeaderRow, <<id_A, Num(10000)>>>> }
UITargetSheets ==
    { <<TargetHeaderRow, <<id_A, Num(100000)>>, <<id_7, Num(80000)>>>>,
      <<TargetHeaderRow, <<id_7, Num(80000)>>>> }

InitUI ==
    /\ ReconIdle
    /\ HeaderIdle
    /\ FilesIdle
    /\ UIIdle

\* part_000:20-26
HandleRemittanceUpload ==
    /\ \E sheet \in UISourceSheets : remittanceFile' = File(sheet)
    /\ UNCHANGED <<submissionFile, matchedData, unmatchedData, loading, error,
                   running, reconVars, headerVars, fileVars>>

\* part_000:28-34
HandleSubmissionUpload ==
    /\ \E sheet \in UITargetSheets : submissionFile' = File(sheet)
    /\ UNCHANGED <<remittanceFile, matchedData, unmatchedData, loading, error,
                   running, reconVars, headerVars, fileVars>>

\* variant: a run that leaves through the catch clause skips the finally
\* clause
Catch_noFinally ==
    /\ pc = "error"
    /\ error' = MsgProcessing
    /\ pc' = "idle"
    /\ running' = running - 1
    /\ UNCHANGED <<remittanceFile, submissionFile, matchedData, unmatchedData,
                   loading, remittanceData, submissionData, amtFieldName,
                   remittanceIdField, submissionIdField, remittanceAmtSumByID,
                   remittanceIds, matchedRows, unmatchedRows,
                   enhancedMatchedRows, headerVars, fileVars>>

\* part_000:36-45, a click on the button (line 194), which is disabled while
\* loading (line 195).  The button is disabled as well while a file is
\* missing; processFiles makes that test itself (lines 37-40), and the call
\* with a file missing is kept as a call of the function.
ProcessFiles ==
    /\ ~loading
    /\ running < MaxRunning
    /\ IF remittanceFile = Null \/ submissionFile = Null
       THEN /\ error' = MsgUploadBoth
            /\ UNCHANGED <<loading, running, reconVars, fileVars>>
       ELSE /\ loading' = TRUE
            /\ error' = ""
            /\ running' = running + 1
            /\ pc' = "start"
            /\ remittanceSheet' = remittanceFile.sheet
            /\ submissionSheet' = submissionFile.sheet
            /\ remittanceHeaderRow' = 0 - 1
            /\ submissionHeaderRow' = 0 - 1
            /\ readDone' = {}
            /\ rowScores' = <<>>
            /\ remittanceData' = <<>>
            /\ submissionData' = <<>>
            /\ amtFieldName' = Undefined
            /\ remittanceIdField' = Undefined
            /\ submissionIdField' = Undefined
            /\ remittanceAmtSumByID' = <<>>
            /\ remittanceIds' = <<>>
            /\ matchedRows' = <<>>
            /\ unmatchedRows' = <<>>
            /\ enhancedMatchedRows' = <<>>
    /\ UNCHANGED <<remittanceFile, submissionFile, matchedData, unmatchedData,
                   headerVars>>

\* headerDetection.js:255-261: the promise of a readExcelFile call is rejected
\* (reader.onerror, or an exception inside onload)
ReadRejected ==
    /\ pc = "start"
    /\ pc' = "error"
    /\ UNCHANGED <<remittanceData, submissionData, amtFieldName,
                   remittanceIdField, submissionIdField, remittanceAmtSumByID,
                   remittanceIds, matchedRows, unmatchedRows,
                   enhancedMatchedRows, headerVars, fileVars, uiVars>>

\* part_000:106-107, the two updates taken as one rendering
SetResults ==
    /\ pc = "done"
    /\ matchedData' = Array(enhancedMatchedRows)
    /\ unmatchedData' = Array(unmatchedRows)
    /\ pc' = "finally"
    /\ UNCHANGED <<remittanceFile, submissionFile, loading, error, running,
                   remittanceData, submissionData, amtFieldName,
                   remittanceIdField, submissionIdField, remittanceAmtSumByID,
                   remittanceIds, matchedRows, unmatchedRows,
                   enhancedMatchedRows, headerVars, fileVars>>

\* part_000:108-110
Catch ==
    /\ pc = "error"
    /\ error' = MsgProcessing
    /\ pc' = "finally"
    /\ UNCHANGED <<remittanceFile, submissionFile, matchedData, unmatchedData,
                   loading, running, remittanceData, submissionData,
                   amtFieldName, remittanceIdField, submissionIdField,
                   remittanceAmtSumByID, remittanceIds, matchedRows,
                   unmatchedRows, enhancedMatchedRows, headerVars, fileVars>>

\* part_000:111-113
Finally ==
    /\ pc = "finally"
    /\ loading' = FALSE
    /\ running' = running - 1
    /\ pc' = "idle"
    /\ UNCHANGED <<remittanceFile, submissionFile, matchedData, unmatchedData,
                   error, remittanceData, submissionData, amtFieldName,
                   remittanceIdField, submissionIdField, remittanceAmtSumByID,
                   remittanceIds, matchedRows, unmatchedRows,
                   enhancedMatchedRows, headerVars, fileVars>>

\* the steps of a run of processFiles after line 45
RunStep ==
    \/ ReadRemittance
    \/ ReadSubmission
    \/ ReadRejected
    \/ IdentifyColumns
    \/ CreateRemittanceMapping
    \/ ExtractIds
    \/ FindMatchingRecords
    \/ ProcessMatchedData
    \/ SetResults
    \/ Catch
    \/ Finally

NextUI ==
    \/ HandleRemittanceUpload
    \/ HandleSubmissionUpload
    \/ ProcessFiles
    \/ RunStep

SpecUI == InitUI /\ [][NextUI]_vars

\* a run that has started goes on: the FileReader calls back and the
\* continuations of the awaits are run by the event loop
SpecUIFair == SpecUI /\ WF_vars(RunStep)

\* C29: after a run of processFiles that ended in the error outcome, the
\* matched and unmatched lists displayed hold no results of an earlier
\* successful run; the two lists displayed always come from the same run.
C29_NoStaleResults ==
    /\ (error = MsgProcessing /\ ~loading) =>
          (matchedData = Null /\ unmatchedData = Null)
    /\ (matchedData = Null) <=> (unmatchedData = Null)


\* a file is missing
FileMissing == remittanceFile = Null \/ submissionFile = Null

\* C30: every run of processFiles started with both files chosen sets loading
\* to true and eventually sets it back to false, whether the run succeeds or
\* a stage throws or a read is rejected; a call with a file missing sets the
\* error message 'Please upload both files' and leaves loading, matchedData
\* and unmatchedData unchanged; the button being disabled while loading, at
\* most one run is in progress at any time.
C30_LoadingLifecycle ==
    /\ loading ~> ~loading
    /\ [][running' = running + 1 => (~FileMissing /\ loading')]_vars
    /\ [][(FileMissing /\ UNCHANGED <<remittanceFile, submissionFile>>)
            => /\ error' = MsgUploadBoth
               /\ UNCHANGED <<loading, matchedData, unmatchedData>>]_vars
    /\ [](running <= 1 /\ (loading <=> running = 1))

\* no run in progress, after a run that succeeded and a later run that ended
\* in the catch clause
C30_Witness ==
    /\ ~loading
    /\ running = 0
    /\ error = MsgProcessing
    /\ matchedData # Null
    /\ pc = "idle"

=============================================================================
